---- MODULE Spec2Model ----
(***************************************************************************)
(* Model of diagnostics_tk.DiagnosticsRunner: registration of sinks and    *)
(* test collections, run() on a concurrent.futures.ThreadPoolExecutor,     *)
(* the per-future completion callback, and the context-manager exit that   *)
(* runs and flushes.                                                       *)
(*                                                                         *)
(* Threads: the main thread (the caller of the with statement) and the     *)
(* worker threads of the pool.  A worker executes the callable, marks the  *)
(* future FINISHED and then runs the done-callbacks registered so far; a   *)
(* callback added to an already FINISHED future runs on the main thread.   *)
(* Every register call of a sink passes a distinct sink instance, so the   *)
(* sinks are identified by their position in self.outputs, and a test      *)
(* collection is handed to register once.                                  *)
(***************************************************************************)
EXTENDS Naturals, Integers, Sequences, FiniteSets, Bags, TLC

\* ---------------------------------------------------------------- bounds
MaxWorkers     == 2  \* workers is drawn from 0..MaxWorkers
MaxRegistered  == 4  \* register calls of the body, one counted per entry added
MaxBodyRuns    == 1  \* explicit run() calls in the body of the with statement
LiveRegistered == 3  \* MaxRegistered of the specification with fairness
LiveBodyRuns   == 1  \* MaxBodyRuns of the specification with fairness

\* ------------------------------------------------------- input universe
RunnerName == "diag"
Names == {"n1"}

Lit(s)   == [k |-> "lit",   v |-> s]
Ws(s)    == [k |-> "ws",    v |-> s]
Field(s) == [k |-> "field", v |-> s]

StrArg(s) == [t |-> "str", s |-> s, n |-> 0]
IntArg(n) == [t |-> "int", s |-> "", n |-> n]

\* the ways a call can end
Returns       == [kind |-> "ok", args |-> << >>]
Asserts(args) == [kind |-> "AssertionError", args |-> args]
Raises(args)  == [kind |-> "Exception", args |-> args]

\* a member of a collection object: its name, whether the name starts with
\* test_, whether it is callable, the ways a call of it can end, and the
\* tokens of its docstring (<< >> for no docstring)
Fn(name, outcomes, doc) ==
    [fn |-> name, prefixed |-> TRUE, callable |-> TRUE,
     outcomes |-> outcomes, hasDoc |-> doc # << >>, tpl |-> doc]

NoDocString == << >>

\* a member of an object that is no diagnostic method: an attribute whose
\* name lacks the prefix, or a test_ attribute that is not callable
Member(name, prefixed, callable) ==
    [fn |-> name, prefixed |-> prefixed, callable |-> callable,
     outcomes |-> {}, hasDoc |-> FALSE, tpl |-> << >>]

NoFields == [f \in {} |-> ""]

\* test collections handed to register(); members are listed in dir() order.
\* output: isinstance(obj, Output); attrs: the object accepts
\* obj._name = name
Collections ==
    { [cls |-> "Checks", output |-> FALSE, attrs |-> TRUE,
       fields |-> NoFields,
       members |-> << Fn("test_a", {Returns},
                         << Lit("checks"), Ws("nl"), Ws("sp"), Field("_name") >>),
                      Fn("test_b", {Asserts(<< StrArg("boom") >>)},
                         NoDocString) >>],
      [cls |-> "Broken", output |-> FALSE, attrs |-> TRUE,
       fields |-> [host |-> "h1"],
       members |-> << Fn("test_err", {Raises(<< IntArg(111) >>)},
                         << Lit("port"), Ws("sp"), Field("port") >>) >>],
      [cls |-> "Ping", output |-> FALSE, attrs |-> TRUE,
       fields |-> NoFields,
       members |-> << Member("host", FALSE, FALSE),
                      Fn("test_ping", {Returns}, NoDocString) >>] }

\* sink classes handed to register(): ConsoleTable implements submit and
\* flush, the base class Output raises in both
SinkClasses == {"ConsoleTable", "Output"}

\* sinks handed to register(): an instance of ConsoleTable, an instance of
\* the base class Output, and an instance of a subclass of ConsoleTable that
\* carries a diagnostic method of its own
OutputObjects ==
    { [cls |-> "ConsoleTable", output |-> TRUE, attrs |-> TRUE, fields |-> NoFields,
       members |-> << Member("flush", FALSE, TRUE),
                      Member("submit", FALSE, TRUE) >>],
      [cls |-> "Output", output |-> TRUE, attrs |-> TRUE, fields |-> NoFields,
       members |-> << Member("flush", FALSE, TRUE),
                      Member("submit", FALSE, TRUE) >>],
      [cls |-> "SelfTest", output |-> TRUE, attrs |-> TRUE, fields |-> NoFields,
       members |-> << Member("flush", FALSE, TRUE),
                      Member("submit", FALSE, TRUE),
                      Fn("test_s", {Returns}, NoDocString) >>] }

\* objects that are neither: an instance of a plain class whose only test_
\* attribute is a number, and object(), which has no instance dictionary
Others ==
    { [cls |-> "Plain", output |-> FALSE, attrs |-> TRUE,
       fields |-> NoFields,
       members |-> << Member("helper", FALSE, TRUE),
                      Member("test_x", TRUE, FALSE) >>],
      [cls |-> "object", output |-> FALSE, attrs |-> FALSE,
       fields |-> NoFields,
       members |-> << >>] }

Objects == OutputObjects \cup Collections \cup Others

VARIABLES
    workers,    \* self.workers
    methods,    \* self.methods
    outputs,    \* self.outputs (class of each registered sink)
    pc,         \* position of the main thread
    inExit,     \* the main thread is inside __exit__
    idx,        \* loop position in run() / in the flush loop of __exit__
    fut,        \* the futures of the current run() and the pool's work items
    cb,         \* per future: the call of __callback (by: the thread inside it)
    rows,       \* per sink: the bag of submit calls it received
    inSubmit,   \* per sink: the futures whose callback is inside its submit
    flushed,    \* per sink: number of flush calls it received
    exc,        \* exception propagating out of the with statement
    runNo,      \* number of run() invocations that created a pool
    budget,     \* register calls (one per entry added) the body may still make
    runsLeft,   \* explicit run() calls the body may still make
    runState    \* "idle" | "active" | "returned" | "raised" of the latest run()

vars == << workers, methods, outputs, pc, inExit, idx, fut, cb, rows, inSubmit,
           flushed, exc, runNo, budget, runsLeft, runState >>

\* ------------------------------------------------------ pure functions

\* the instance dictionary register() leaves on the object: its own fields
\* plus _name
Kwargs(obj, name) ==
    [f \in (DOMAIN obj.fields) \cup {"_name"} |->
        IF f = "_name" THEN name ELSE obj.fields[f]]

\* str.format(**kwargs): every replacement field must be a key of kwargs
FormatOk(tpl, kwargs) ==
    \A i \in 1..Len(tpl) : tpl[i].k = "field" => tpl[i].v \in DOMAIN kwargs

Format(tpl, kwargs) ==
    [i \in 1..Len(tpl) |->
        IF tpl[i].k = "field" THEN Lit(kwargs[tpl[i].v]) ELSE tpl[i]]

\* re.sub(r"\s+", " ", doc): every run of whitespace becomes one blank
RECURSIVE Collapse(_)
Collapse(toks) ==
    IF toks = << >> THEN << >>
    ELSE LET rest == Collapse(Tail(toks))
         IN  IF Head(toks).k = "ws"
             THEN IF rest # << >> /\ Head(rest) = " " THEN rest
                  ELSE << " " >> \o rest
             ELSE << Head(toks).v >> \o rest

AbsentDoc == [some |-> FALSE, text |-> << >>]

RenderDocString(func, kwargs) ==
    IF ~func.hasDoc THEN AbsentDoc
    ELSE IF FormatOk(func.tpl, kwargs)
         THEN [some |-> TRUE, text |-> Collapse(Format(func.tpl, kwargs))]
         ELSE AbsentDoc

\* name.startswith("test_") and callable(func)
IsTestMethod(func) == func.prefixed /\ func.callable

QualifiedName(selfName, className, objName, fn) ==
    << selfName, className, objName, fn >>

IsDiagInstance(obj) ==
    \E i \in 1..Len(obj.members) : IsTestMethod(obj.members[i])

ExtractTestMethods(obj, name) ==
    LET found == SelectSeq(obj.members, IsTestMethod)
    IN  [i \in 1..Len(found) |->
            [name   |-> QualifiedName(RunnerName, obj.cls, name, found[i].fn),
             method |-> found[i],
             doc    |-> RenderDocString(found[i], Kwargs(obj, name))]]

\* decimal text of a natural number
Digit(d) == << "0", "1", "2", "3", "4", "5", "6", "7", "8", "9" >>[d + 1]

RECURSIVE Decimal(_)
Decimal(n) ==
    IF n < 10 THEN << Digit(n) >> ELSE Decimal(n \div 10) \o << Digit(n % 10) >>

\* str(err) of an exception: "" without arguments, the text of a single
\* argument otherwise (a text is kept as the one-element sequence of itself,
\* a number becomes its decimal digits)
Str(args) ==
    IF args = << >> THEN << >>
    ELSE IF args[1].t = "str" THEN << args[1].s >> ELSE Decimal(args[1].n)

\* ------------------------------------------------------------- futures

NewFuture == [state |-> "NEW", fn |-> << >>, method |-> << >>,
              hasCb |-> FALSE, outcome |-> [kind |-> "none", args |-> << >>]]

NoCallback == [by |-> "none", at |-> "none", sink |-> 0,
               result |-> FALSE, reason |-> << >>]

Units == DOMAIN fut

CallbackActive(i) == cb[i].at = "insubmit"

\* a worker thread is occupied from taking a work item until the future's
\* set_result/set_exception, the done-callbacks included, has returned
Busy ==
    Cardinality({i \in Units : \/ fut[i].state = "RUNNING"
                               \/ cb[i].by = "worker" /\ CallbackActive(i)})

\* the pool built one thread too large
PoolSizeOneMore(w) == w + 1

\* ThreadPoolExecutor(max_workers=self.workers)
PoolSize(w) == w

\* the ways calling the callable can end
Call(fn) == fn.outcomes

\* the except branch reporting the success marker instead of str(err)
ClassifyLosesReason(outcome) ==
    CASE outcome.kind = "AssertionError" ->
            [caught |-> TRUE, result |-> FALSE, reason |-> << "n/a" >>]
      [] outcome.kind = "ok" ->
            [caught |-> TRUE, result |-> TRUE, reason |-> << "n/a" >>]
      [] OTHER ->
            [caught |-> FALSE, result |-> FALSE, reason |-> << >>]

\* the else branch reporting a failure
ClassifyPassAsFail(outcome) ==
    CASE outcome.kind = "AssertionError" ->
            [caught |-> TRUE, result |-> FALSE, reason |-> Str(outcome.args)]
      [] outcome.kind = "ok" ->
            [caught |-> TRUE, result |-> FALSE, reason |-> << "n/a" >>]
      [] OTHER ->
            [caught |-> FALSE, result |-> FALSE, reason |-> << >>]

\* except Exception instead of except AssertionError
ClassifyCatchAll(outcome) ==
    CASE outcome.kind = "ok" ->
            [caught |-> TRUE, result |-> TRUE, reason |-> << "n/a" >>]
      [] OTHER ->
            [caught |-> TRUE, result |-> FALSE, reason |-> Str(outcome.args)]

\* try: future.result() / except AssertionError / else of __callback:
\* caught tells whether the callback goes on to the sinks
Classify(outcome) ==
    CASE outcome.kind = "AssertionError" ->
            [caught |-> TRUE, result |-> FALSE, reason |-> Str(outcome.args)]
      [] outcome.kind = "ok" ->
            [caught |-> TRUE, result |-> TRUE, reason |-> << "n/a" >>]
      [] OTHER ->
            [caught |-> FALSE, result |-> FALSE, reason |-> << >>]

\* the loop over the sinks stopping one short
DispatchTargetsButLast ==
    IF Len(outputs) > 1 THEN Len(outputs) - 1 ELSE Len(outputs)

\* for output in self.outputs: the sinks the callback loops over
DispatchTargets == Len(outputs)

\* the loop over the sinks running from the last registered to the first
SinkAtReversed(k) == Len(outputs) + 1 - k

\* for output in self.outputs: the sink of the k-th iteration, self.outputs
\* being in the order of the register calls
SinkAt(k) == k

\* a sink whose submit returns whatever its class
SubmitRaisesNever(cls) == FALSE

\* Output.submit raises; ConsoleTable.submit, which SelfTest inherits, adds
\* a row and returns
SubmitRaises(cls) == cls = "Output"

\* a finished work item is taken from the queue again
QueuedOrDone(i) == fut[i].state \in {"PENDING", "FINISHED"}

\* the work item of future i is in the queue of the pool
Queued(i) == fut[i].state = "PENDING"

\* the queue handing out its items in any order
OldestOrAny(i) == TRUE

\* the queue of the pool is first in first out: item i is the next to be
\* taken when no item submitted before it is still queued
Oldest(i) == \A j \in Units : j < i => ~Queued(j)

\* every iteration of the loop of run() seeing the first entry
MethodOfFirst(k) == methods[1]

\* for method in self.methods: the entry of the k-th iteration
MethodOf(k) == methods[k]

\* run() emptying the registry it went through
MethodsConsumed == << >>

\* self.methods when run() returns: run() only reads it
MethodsAfterRun == methods

\* the pool left without waiting for its threads
AllJoinedNoWait == TRUE

\* leaving the with block of the executor: shutdown(wait=True) joins the
\* worker threads
AllJoined ==
    \A i \in Units : fut[i].state = "FINISHED" /\ ~(cb[i].by = "worker" /\ CallbackActive(i))

\* -------------------------------------------------------------- Init

InitWith(entries, bodyRuns) ==
    /\ workers \in 0..MaxWorkers
    /\ budget = entries
    /\ runsLeft = bodyRuns
    /\ methods = << >>
    /\ outputs = << >>
    /\ pc = "body"
    /\ inExit = FALSE
    /\ idx = 0
    /\ fut = << >>
    /\ cb = << >>
    /\ rows = << >>
    /\ inSubmit = << >>
    /\ flushed = << >>
    /\ exc = "none"
    /\ runNo = 0
    /\ runState = "idle"

Init == InitWith(MaxRegistered, MaxBodyRuns)

\* ---------------------------------------------------------- register

\* register() is called in the registration phase, before the first run()
Registering == pc = "body" /\ runNo = 0 /\ runState = "idle"

\* the object can never be told from a sink
IsOutputNever(obj) == FALSE

\* isinstance(obj, Output)
IsOutput(obj) == obj.output

\* obj._name = name raises AttributeError on an object without instance
\* dictionary: the error leaves the body of the with statement
RegisterRaises(name, obj) ==
    /\ Registering
    /\ ~obj.attrs
    /\ exc' = "AttributeError"
    /\ pc' = "exit"
    /\ inExit' = TRUE
    /\ budget' = 0
    /\ UNCHANGED << workers, methods, outputs, idx, fut, cb, rows, inSubmit,
                    flushed, runNo, runsLeft, runState >>

RegisterOutput(name, obj) ==
    /\ Registering
    /\ obj.attrs
    /\ IsOutput(obj)
    /\ budget >= 1
    /\ budget' = budget - 1
    /\ outputs' = Append(outputs, obj.cls)
    /\ rows' = Append(rows, EmptyBag)
    /\ inSubmit' = Append(inSubmit, {})
    /\ flushed' = Append(flushed, 0)
    /\ UNCHANGED << workers, methods, pc, inExit, idx, fut, cb, exc, runNo,
                    runsLeft, runState >>

\* the body of the with statement has handed this collection to register
Registered(obj) == \E k \in 1..Len(methods) : methods[k].name[2] = obj.cls

RegisterCollection(name, obj) ==
    /\ Registering
    /\ obj.attrs
    /\ ~IsOutput(obj)
    /\ IsDiagInstance(obj)
    /\ ~Registered(obj)
    /\ budget >= Len(ExtractTestMethods(obj, name))
    /\ budget' = budget - Len(ExtractTestMethods(obj, name))
    /\ methods' = methods \o ExtractTestMethods(obj, name)
    /\ UNCHANGED << workers, outputs, pc, inExit, idx, fut, cb, rows,
                    inSubmit, flushed, exc, runNo, runsLeft, runState >>

\* neither branch of register() is taken
RegisterIgnored(name, obj) ==
    /\ Registering
    /\ obj.attrs
    /\ ~IsOutput(obj)
    /\ ~IsDiagInstance(obj)
    /\ budget >= 1
    /\ budget' = budget - 1
    /\ UNCHANGED << workers, methods, outputs, pc, inExit, idx, fut, cb, rows,
                    inSubmit, flushed, exc, runNo, runsLeft, runState >>

Register(name, obj) ==
    \/ RegisterRaises(name, obj)
    \/ RegisterOutput(name, obj)
    \/ RegisterCollection(name, obj)
    \/ RegisterIgnored(name, obj)

\* -------------------------------------------------------- __callback

\* the call output.submit(future.method["name"], future.method["doc"],
\* result, reason) of future i, tagged with the run and the future
Row(i, result, reason) ==
    [run |-> runNo, unit |-> i, name |-> fut[i].method[1].name,
     doc |-> fut[i].method[1].doc, result |-> result, reason |-> reason]

\* __callback(future) is called on thread `by` for future i, whose call ended
\* with `outcome`: try/except/else, up to the entry of the first submit.
\* future.result() re-raises what the call raised and only AssertionError is
\* caught; both logging branches read future.method, which raises
\* AttributeError when the attribute is not there.  An Exception that leaves
\* the callback is logged by the future and dropped.
CallbackBegin(i, by, outcome) ==
    LET c == Classify(outcome)
    IN  IF c.caught /\ fut[i].method # << >>
        THEN IF DispatchTargets = 0
             THEN /\ cb' = [cb EXCEPT ![i] = [by |-> "none", at |-> "done", sink |-> 0,
                                 result |-> c.result, reason |-> c.reason]]
                  /\ UNCHANGED << rows, inSubmit >>
             ELSE /\ cb' = [cb EXCEPT ![i] = [by |-> by, at |-> "insubmit", sink |-> 1,
                                 result |-> c.result, reason |-> c.reason]]
                  /\ rows' = [rows EXCEPT ![SinkAt(1)] =
                                  @ (+) SetToBag({Row(i, c.result, c.reason)})]
                  /\ inSubmit' = [inSubmit EXCEPT ![SinkAt(1)] = @ \cup {i}]
        ELSE /\ cb' = [cb EXCEPT ![i] = [by |-> "none", at |-> "raised", sink |-> 0,
                            result |-> FALSE, reason |-> << >>]]
             /\ UNCHANGED << rows, inSubmit >>

\* submit returns (ConsoleTable) or raises (Output): an exception ends the
\* callback, otherwise the loop enters the submit of the next sink
CbNext(i) ==
    /\ i \in Units
    /\ cb[i].at = "insubmit"
    /\ LET k == cb[i].sink
           s == SinkAt(k)
       IN  IF SubmitRaises(outputs[s])
           THEN /\ cb' = [cb EXCEPT ![i].at = "raised", ![i].by = "none"]
                /\ inSubmit' = [inSubmit EXCEPT ![s] = @ \ {i}]
                /\ UNCHANGED rows
           ELSE IF k < DispatchTargets
           THEN /\ cb' = [cb EXCEPT ![i].sink = k + 1]
                /\ inSubmit' = [inSubmit EXCEPT ![s] = @ \ {i},
                                                ![SinkAt(k + 1)] = @ \cup {i}]
                /\ rows' = [rows EXCEPT ![SinkAt(k + 1)] =
                               @ (+) SetToBag({Row(i, cb[i].result, cb[i].reason)})]
           ELSE /\ cb' = [cb EXCEPT ![i].at = "done", ![i].by = "none"]
                /\ inSubmit' = [inSubmit EXCEPT ![s] = @ \ {i}]
                /\ UNCHANGED rows
    /\ UNCHANGED << workers, methods, outputs, pc, inExit, idx, fut, flushed,
                    exc, runNo, runState,
                    budget, runsLeft >>

\* ----------------------------------------------------------- run()

\* entry of run(): the pool is created, or its constructor raises
\* ValueError; raised in the body of the with statement the error enters
\* __exit__, raised in __exit__ it leaves the with statement
RunEnter ==
    IF PoolSize(workers) <= 0
    THEN /\ exc' = "ValueError"
         /\ runState' = "raised"
         /\ pc' = IF inExit THEN "done" ELSE "exit"
         /\ inExit' = TRUE
         /\ UNCHANGED << idx, fut, cb, runNo >>
    ELSE /\ fut' = [i \in 1..Len(methods) |-> NewFuture]
         /\ cb' = [i \in 1..Len(methods) |-> NoCallback]
         /\ idx' = 1
         /\ runNo' = runNo + 1
         /\ runState' = "active"
         /\ pc' = "submit"
         /\ UNCHANGED << exc, inExit >>

\* an explicit run() in the body of the with statement
BodyRun ==
    /\ pc = "body"
    /\ runsLeft >= 1
    /\ runsLeft' = runsLeft - 1
    /\ budget' = 0
    /\ RunEnter
    /\ UNCHANGED << workers, methods, outputs, rows, inSubmit, flushed >>

\* the body of the with statement ends, normally or by an exception of its own
LeaveScope(e) ==
    /\ pc = "body"
    /\ pc' = "exit"
    /\ inExit' = TRUE
    /\ exc' = e
    /\ budget' = 0
    /\ UNCHANGED << workers, methods, outputs, idx, fut, cb, rows, inSubmit,
                    flushed, runNo, runState, runsLeft >>

\* __exit__: self.run()
ExitRun ==
    /\ pc = "exit"
    /\ RunEnter
    /\ UNCHANGED << workers, methods, outputs, rows, inSubmit, flushed, budget,
                    runsLeft >>

\* future = executor.submit(method["method"]); past the last method the loop
\* ends, as_completed(futures) builds a generator nobody iterates, and the
\* with block of the executor is left
Submit ==
    /\ pc = "submit"
    /\ IF idx <= Len(methods)
       THEN /\ fut' = [fut EXCEPT ![idx].state = "PENDING",
                                  ![idx].fn = << MethodOf(idx).method >>]
            /\ pc' = "attach"
       ELSE /\ pc' = "shutdown"
            /\ UNCHANGED fut
    /\ UNCHANGED << workers, methods, outputs, inExit, idx, cb, rows, inSubmit,
                    flushed, exc, runNo, runState,
                    budget, runsLeft >>

\* future.method = method
Attach ==
    /\ pc = "attach"
    /\ fut' = [fut EXCEPT ![idx].method = << MethodOf(idx) >>]
    /\ pc' = "add_cb"
    /\ UNCHANGED << workers, methods, outputs, inExit, idx, cb, rows, inSubmit,
                    flushed, exc, runNo, runState,
                    budget, runsLeft >>

\* future.add_done_callback(self.__callback): on a FINISHED future the
\* callback is called at once on the calling thread, otherwise it is stored
AddDoneCallback ==
    /\ pc = "add_cb"
    /\ IF fut[idx].state = "FINISHED"
       THEN /\ CallbackBegin(idx, "main", fut[idx].outcome)
            /\ pc' = "callback"
            /\ UNCHANGED << fut, idx >>
       ELSE /\ fut' = [fut EXCEPT ![idx].hasCb = TRUE]
            /\ pc' = "submit"
            /\ idx' = idx + 1
            /\ UNCHANGED << cb, rows, inSubmit >>
    /\ UNCHANGED << workers, methods, outputs, inExit, flushed, exc, runNo,
                    runState,
                    budget, runsLeft >>

\* the callback that ran inside add_done_callback has returned or raised (an
\* Exception raised by a callback is logged by the future and dropped);
\* futures.append(future)
CallbackReturn ==
    /\ pc = "callback"
    /\ cb[idx].at \in {"done", "raised"}
    /\ pc' = "submit"
    /\ idx' = idx + 1
    /\ UNCHANGED << workers, methods, outputs, inExit, fut, cb, rows, inSubmit,
                    flushed, exc, runNo, runState,
                    budget, runsLeft >>

\* run() returns once the executor's with block has joined the workers
Shutdown ==
    /\ pc = "shutdown"
    /\ AllJoined
    /\ runState' = "returned"
    /\ pc' = IF inExit THEN "flush" ELSE "body"
    /\ idx' = 1
    /\ methods' = MethodsAfterRun
    /\ UNCHANGED << workers, outputs, inExit, fut, cb, rows, inSubmit,
                    flushed, exc, runNo, budget, runsLeft >>

\* __exit__: for output in self.outputs: output.flush()
Flush ==
    /\ pc = "flush"
    /\ IF idx <= Len(outputs)
       THEN /\ flushed' = [flushed EXCEPT ![idx] = @ + 1]
            /\ IF outputs[idx] = "Output"
               THEN /\ exc' = "Exception"
                    /\ pc' = "done"
                    /\ UNCHANGED idx
               ELSE /\ idx' = idx + 1
                    /\ UNCHANGED << pc, exc >>
       ELSE /\ pc' = "done"
            /\ UNCHANGED << flushed, idx, exc >>
    /\ UNCHANGED << workers, methods, outputs, inExit, fut, cb, rows, inSubmit,
                    runNo, runState,
                    budget, runsLeft >>

\* ------------------------------------------------------ worker threads

\* a worker takes the oldest work item of the queue: set_running_or_notify_cancel
Start(i) ==
    /\ i \in Units
    /\ Queued(i)
    /\ Oldest(i)
    /\ Busy < PoolSize(workers)
    /\ fut' = [fut EXCEPT ![i].state = "RUNNING"]
    /\ UNCHANGED << workers, methods, outputs, pc, inExit, idx, cb, rows,
                    inSubmit, flushed, exc, runNo, runState,
                    budget, runsLeft >>

\* the callable returns or raises: set_result / set_exception marks the
\* future FINISHED and calls the callbacks stored so far
Finish(i) ==
    /\ i \in Units
    /\ fut[i].state = "RUNNING"
    /\ \E o \in Call(fut[i].fn[1]) :
          /\ fut' = [fut EXCEPT ![i].state = "FINISHED", ![i].outcome = o]
          /\ IF fut[i].hasCb
             THEN CallbackBegin(i, "worker", o)
             ELSE UNCHANGED << cb, rows, inSubmit >>
    /\ UNCHANGED << workers, methods, outputs, pc, inExit, idx, flushed, exc,
                    runNo, runState,
                    budget, runsLeft >>

\* ------------------------------------------------------------- Next

Main ==
    \/ \E n \in Names, o \in Objects : Register(n, o)
    \/ BodyRun
    \/ \E e \in {"none", "BodyError"} : LeaveScope(e)
    \/ ExitRun
    \/ Submit
    \/ Attach
    \/ AddDoneCallback
    \/ CallbackReturn
    \/ Shutdown
    \/ Flush

Worker(i) == Start(i) \/ Finish(i)

Callback(i) == CbNext(i)

Next ==
    \/ Main
    \/ \E i \in 1..MaxRegistered : Worker(i)
    \/ \E i \in 1..MaxRegistered : Callback(i)

Spec == Init /\ [][Next]_vars

\* a step of run() or __exit__ on the main thread, or of a thread of the pool
Progress ==
    \/ ExitRun \/ Submit \/ Attach \/ AddDoneCallback \/ CallbackReturn
    \/ Shutdown \/ Flush
    \/ \E i \in 1..MaxRegistered : Worker(i) \/ Callback(i)

LiveInit == InitWith(LiveRegistered, LiveBodyRuns)

\* the threads are scheduled and every callable terminates: while a step of
\* the main thread inside run()/__exit__ or of a pool thread is possible, one
\* is eventually taken
FairSpec == LiveInit /\ [][Next]_vars /\ WF_vars(Progress)

\* ------------------------------------------------- claims: vocabulary

Sinks == 1..Len(outputs)

\* the one way the call of the i-th registered method ends
OutcomeOf(i) == CHOOSE o \in Call(methods[i].method) : TRUE

Passes(i)  == OutcomeOf(i).kind = "ok"
Asserts_(i) == OutcomeOf(i).kind = "AssertionError"
Errors(i)  == OutcomeOf(i).kind = "Exception"

\* the submit calls sink s received for future i of run r
Received(s, r, i) ==
    { row \in BagToSet(rows[s]) : row.run = r /\ row.unit = i }

\* how many submit calls sink s received for future i of run r
Submits(s, r, i) ==
    LET got == Received(s, r, i)
    IN  IF got = {} THEN 0
        ELSE IF Cardinality(got) = 1
             THEN CopiesIn(CHOOSE row \in got : TRUE, rows[s])
             ELSE Cardinality(got) + 1

\* the exceptions the body of the with statement raises by itself
BodyExceptions == {"BodyError", "AttributeError"}

\* the with statement is over: __exit__ ran run() to its return and called
\* flush on every registered sink
ScopedRunOver ==
    /\ pc = "done"
    /\ runState = "returned"
    /\ \A s \in Sinks : flushed[s] >= 1

\* -------------------------------------------------------------- C1
\* C1: after a scoped run (run() returned, then flush) in which every
\* registered method returns normally or raises an assertion failure, every
\* registered sink has received exactly one submit per entry of self.methods
\* for that run, none missing and none duplicated.
C1_OneSubmitPerEntry ==
    (ScopedRunOver /\ \A i \in 1..Len(methods) : Passes(i) \/ Asserts_(i))
        => \A s \in Sinks :
              /\ \A i \in 1..Len(methods) : Submits(s, runNo, i) = 1
              /\ \A row \in BagToSet(rows[s]) :
                    row.run = runNo => row.unit \in 1..Len(methods)

C1_Witness ==
    /\ ScopedRunOver
    /\ Len(outputs) >= 2
    /\ Len(methods) >= 2
    /\ \E i \in 1..Len(methods) : Asserts_(i)
    /\ \A i \in 1..Len(methods) : Passes(i) \/ Asserts_(i)

\* sink s is reached by the loop of the callback: no sink registered before
\* it raises in submit
Reached(s) == \A t \in 1..(s - 1) : outputs[t] # "Output"

\* the callback of future i of the current run has gone through all sinks
Dispatched(i) == i \in Units /\ cb[i].at = "done"

\* -------------------------------------------------------------- C2
\* C2: for a method whose call raises an assertion failure with message M,
\* every submit a sink receives for it is (qualified name, description,
\* false, M), every registered sink has received it once its callback is
\* through, and the failure does not reach the caller of run(): the run
\* stays active until it returns.
C2_AssertionReportedAsFail ==
    /\ \A s \in Sinks : \A row \in BagToSet(rows[s]) :
          Asserts_(row.unit) =>
              /\ row.name = methods[row.unit].name
              /\ row.doc = methods[row.unit].doc
              /\ row.result = FALSE
              /\ LET a == OutcomeOf(row.unit).args
                 IN  (Len(a) = 1 /\ a[1].t = "str") => row.reason = << a[1].s >>
    /\ \A i \in Units :
          fut[i].outcome.kind = "AssertionError" =>
              /\ runState \in {"active", "returned"}
              /\ exc \in {"none", "Exception"} \cup BodyExceptions
              /\ Dispatched(i) => \A s \in Sinks : Submits(s, runNo, i) = 1

C2_Witness ==
    /\ runState = "returned"
    /\ Len(outputs) >= 2
    /\ \E i \in Units :
          /\ fut[i].outcome.kind = "AssertionError"
          /\ Dispatched(i)
          /\ \A s \in Sinks : \E row \in Received(s, runNo, i) :
                row.result = FALSE /\ row.reason = << "boom" >>

\* -------------------------------------------------------------- C3
\* C3: for a method whose call completes normally, every submit a sink
\* receives for it is (qualified name, description, true, "n/a"), and every
\* registered sink has received it once its callback is through.
C3_SuccessReportedAsPass ==
    /\ \A s \in Sinks : \A row \in BagToSet(rows[s]) :
          Passes(row.unit) =>
              /\ row.name = methods[row.unit].name
              /\ row.doc = methods[row.unit].doc
              /\ row.result = TRUE
              /\ row.reason = << "n/a" >>
    /\ \A i \in Units :
          (fut[i].outcome.kind = "ok" /\ Dispatched(i))
              => \A s \in Sinks : Submits(s, runNo, i) = 1

C3_Witness ==
    /\ runState = "returned"
    /\ Len(outputs) >= 2
    /\ \E i \in Units :
          /\ fut[i].outcome.kind = "ok"
          /\ Dispatched(i)
          /\ \A s \in Sinks : \E row \in Received(s, runNo, i) :
                /\ row.result = TRUE
                /\ row.doc = [some |-> TRUE, text |-> << "checks", " ", "n1" >>]

\* -------------------------------------------------------------- C4
\* C4: during run() with W >= 1 workers and K > W registered methods, at
\* most W methods are executing (RUNNING) at any time.
Running == { i \in Units : fut[i].state = "RUNNING" }

C4_AtMostWRunning ==
    (workers >= 1 /\ Len(methods) > workers) => Cardinality(Running) <= workers

C4_Witness ==
    /\ workers >= 2
    /\ Len(methods) > workers
    /\ Cardinality(Running) = workers
    /\ \E i \in Units : fut[i].state = "PENDING"

\* the futures of the latest run() have all finished and their callbacks
\* have returned or raised
AllDone ==
    /\ Len(fut) = Len(methods)
    /\ \A i \in Units : fut[i].state = "FINISHED" /\ cb[i].at \in {"done", "raised"}

\* -------------------------------------------------------------- C5
\* C5: no two submit calls into the same sink overlap: at any time at most
\* one callback is inside a given sink's submit.
C5_SubmitsSerialized ==
    \A s \in Sinks : Cardinality(inSubmit[s]) <= 1

\* -------------------------------------------------------------- C6
\* C6: leaving the with block invokes run() and then flush() on every
\* registered sink exactly once: when the with statement is over, run() has
\* been invoked and every sink has been flushed once, and no sink is flushed
\* before run() was invoked by __exit__.
C6_RunThenFlushEachOnce ==
    /\ pc = "done" => /\ runState \in {"returned", "raised"}
                      /\ \A s \in Sinks : flushed[s] = 1
    /\ \A s \in Sinks : flushed[s] >= 1 => inExit /\ runState # "idle"

\* -------------------------------------------------------------- C7
\* C7: a sink is flushed only after every submitted unit has completed and
\* its callback is over, so no submit into a sink happens after or during
\* that sink's flush: once a sink has been flushed, run() has returned, a
\* future exists for every method, all are finished with their callbacks
\* over, and nobody is inside that sink's submit.
C7_FlushAfterAllSubmits ==
    \A s \in Sinks :
        flushed[s] >= 1 =>
            /\ runState = "returned"
            /\ AllDone
            /\ inSubmit[s] = {}
            /\ \A i \in Units : Dispatched(i) => Submits(s, runNo, i) = 1

C7_Witness ==
    /\ \E s \in Sinks : flushed[s] >= 1 /\ rows[s] # EmptyBag
    /\ Len(outputs) >= 2
    /\ Len(methods) >= 2
    /\ workers >= 2

\* -------------------------------------------------------------- C8
\* C8: if run() raises during scope exit, flush() is still attempted on
\* every registered sink.
C8_FlushWhenRunRaises ==
    (pc = "done" /\ runState = "raised") => \A s \in Sinks : flushed[s] >= 1

\* -------------------------------------------------------------- C9
\* C9: run() returns only after every unit it submitted has finished and
\* its callback is over; and, the callables terminating and the threads
\* being scheduled, an active run() eventually returns, also when there are
\* more methods than workers.
RunActive == runState = "active"
RunReturned == runState = "returned"

ReturnsOnlyWhenAllDone == (RunActive /\ RunReturned') => AllDone

C9_RunBlocksUntilAllDone ==
    /\ [][ReturnsOnlyWhenAllDone]_vars
    /\ RunActive ~> RunReturned

C9_Witness ==
    /\ RunReturned
    /\ workers >= 1
    /\ Len(methods) > workers
    /\ AllDone
    /\ \E s \in Sinks : rows[s] # EmptyBag

\* ------------------------------------------------------------- C10
\* C10: a method that raises a non-assertion error is reported to no sink,
\* neither as PASS nor as FAIL, and does not abort the run: run() never
\* raises once the pool exists, and when it returns every method has been
\* executed and every other method's result is in every sink the loop of
\* the callback reaches.
C10_ErrorNotReportedRunGoesOn ==
    /\ \A s \in Sinks : \A row \in BagToSet(rows[s]) : ~Errors(row.unit)
    /\ Units # {} => runState # "raised"
    /\ RunReturned =>
          /\ AllDone
          /\ \A i \in Units : \A s \in Sinks :
                (~Errors(i) /\ Reached(s)) => Submits(s, runNo, i) = 1

C10_Witness ==
    /\ RunReturned
    /\ \E i \in Units : Errors(i) /\ fut[i].outcome.kind = "Exception"
    /\ \E i \in Units, s \in Sinks : ~Errors(i) /\ Submits(s, runNo, i) = 1
    /\ Len(methods) >= 3

\* ------------------------------------------------------------- C11
\* the callback of future i ended because a sink's submit raised
SubmitRaised(i) == i \in Units /\ cb[i].at = "raised" /\ cb[i].sink >= 1

\* C11: a sink whose submit or flush is the unimplemented one of the base
\* class fails loudly when invoked: once a submit has raised, run() does not
\* return normally to its caller, and when the with statement is left by
\* the error of a flush, flush has still been called on every registered
\* sink.
C11_UnimplementedSinkFailsLoudly ==
    /\ \A i \in Units : SubmitRaised(i) => runState # "returned"
    /\ (pc = "done" /\ exc = "Exception") => \A s \in Sinks : flushed[s] >= 1

\* ------------------------------------------------------------- C12
\* the object is no output sink and has no callable member whose name starts
\* with test_
Neither(o) ==
    /\ ~o.output
    /\ ~\E k \in 1..Len(o.members) : o.members[k].prefixed /\ o.members[k].callable

\* C12: register(name, obj) with an object that is neither an output sink
\* nor has a callable member with the diagnostic prefix leaves self.methods
\* and self.outputs unchanged and raises no error: the body of the with
\* statement goes on with no exception pending.
C12_RegisterOfOtherObjectIsNoOp ==
    [][\A n \in Names, o \in Objects :
          (Neither(o) /\ Register(n, o))
              => /\ UNCHANGED << methods, outputs >>
                 /\ exc' = exc
                 /\ pc' = "body"]_vars

\* ------------------------------------------------------------- C13
\* C13: for each completed unit submit is called on the sinks in the order
\* of their registration, one after the other: a sink has received the
\* unit's result only if every sink registered before it has received it,
\* and the callback is inside the submit of one sink at a time, the earlier
\* submits having returned.
C13_SinksInRegistrationOrder ==
    \A i \in Units : \A t \in Sinks :
        /\ Submits(t, runNo, i) >= 1 =>
              \A s \in 1..(t - 1) :
                  /\ Submits(s, runNo, i) = 1
                  /\ i \notin inSubmit[s]
        /\ i \in inSubmit[t] =>
              /\ Submits(t, runNo, i) = 1
              /\ \A s \in (t + 1)..Len(outputs) : Submits(s, runNo, i) = 0

C13_Witness ==
    /\ Len(outputs) >= 3
    /\ \E i \in Units :
          /\ i \in inSubmit[2]
          /\ Submits(1, runNo, i) = 1
          /\ Submits(3, runNo, i) = 0

\* ------------------------------------------------------------- C14
\* the step taken by future i of the current run: it keeps its state (and,
\* once finished, its outcome) or moves one stage on
UnitStep(i) ==
    LET a == fut[i].state
        b == fut'[i].state
    IN  \/ a = b /\ (a = "FINISHED" => fut'[i].outcome = fut[i].outcome)
        \/ a = "NEW" /\ b = "PENDING"
        \/ a = "PENDING" /\ b = "RUNNING"
        \/ a = "RUNNING" /\ b = "FINISHED"

\* C14: within one run() every unit goes from queued (PENDING) to RUNNING to
\* FINISHED and no other way: a finished unit is never run again and never
\* leaves its terminal state, and when run() returns there is one finished
\* unit per entry of self.methods, which executed that entry's method.
C14_UnitLifecycle ==
    /\ [][runNo' = runNo =>
            \A i \in Units : i \in DOMAIN fut' /\ UnitStep(i)]_vars
    /\ [](RunReturned =>
            /\ Len(fut) = Len(methods)
            /\ \A i \in Units : /\ fut[i].state = "FINISHED"
                                /\ fut[i].fn = << methods[i].method >>)

C14_Witness ==
    /\ RunReturned
    /\ workers = 1
    /\ Len(methods) >= 3
    /\ \A i \in Units : fut[i].state = "FINISHED" /\ fut[i].outcome.kind # "none"

\* ------------------------------------------------------------- C15
\* the entries a step appends to self.methods
Appended == SubSeq(methods', Len(methods) + 1, Len(methods'))

\* the entries are methods of one object, in the order of its members
InDiscoveryOrder(seq) ==
    \E o \in Objects :
        \E f \in [1..Len(seq) -> 1..Len(o.members)] :
            /\ \A p \in 1..Len(seq) : seq[p].method = o.members[f[p]]
            /\ \A p, q \in 1..Len(seq) : p < q => f[p] < f[q]

\* the futures the loop of run() has submitted to the pool
Submitted == { i \in Units : fut[i].state # "NEW" }

\* C15: self.methods is in registration order (register appends the entries
\* of a collection at the end, in discovery order), run() submits the units
\* in that order, unit i executing entry i, and with one worker the units
\* are executed and dispatched in that order: a unit starts only when all
\* units before it have finished, and its callback only when theirs are
\* over.
C15_SubmitInRegistrationOrder ==
    /\ [][/\ Len(methods') >= Len(methods)
          /\ SubSeq(methods', 1, Len(methods)) = methods
          /\ InDiscoveryOrder(Appended)]_vars
    /\ [](\A i \in Submitted :
            /\ \A h \in 1..(i - 1) : h \in Submitted
            /\ fut[i].fn = << methods[i].method >>)
    /\ [](workers = 1 =>
            \A i, j \in Units :
                i < j =>
                    /\ fut[j].state \in {"RUNNING", "FINISHED"}
                          => fut[i].state = "FINISHED"
                    /\ cb[j].at # "none" => cb[i].at \in {"done", "raised"})

C15_Witness ==
    /\ workers = 1
    /\ Len(methods) >= 3
    /\ Len(outputs) >= 1
    /\ Len(fut) >= 3
    /\ fut[1].state = "FINISHED" /\ cb[1].at = "done"
    /\ Submits(1, runNo, 1) = 1
    /\ fut[2].state = "RUNNING"
    /\ fut[3].state = "PENDING"

\* ------------------------------------------------------------- C16
\* the members of o that are diagnostic methods
TestMembers(o) ==
    { k \in 1..Len(o.members) : o.members[k].prefixed /\ o.members[k].callable }

\* C16: register classifies an object exclusively.  A register call with an
\* output sink appends the sink to self.outputs and leaves self.methods
\* alone, whatever test_ methods the sink has; a register call with any
\* other object leaves self.outputs alone, and if the object has diagnostic
\* methods it appends one entry per method to self.methods, all of them
\* methods of that object.
C16_RegisterClassifiesExclusively ==
    [][\A n \in Names, o \in Objects :
          Register(n, o) =>
              /\ o.output =>
                    /\ outputs' = Append(outputs, o.cls)
                    /\ methods' = methods
              /\ ~o.output =>
                    /\ outputs' = outputs
                    /\ Len(methods') = Len(methods) + Cardinality(TestMembers(o))
                    /\ \A p \in (Len(methods) + 1)..Len(methods') :
                          /\ methods'[p].name[2] = o.cls
                          /\ \E k \in TestMembers(o) :
                                methods'[p].method = o.members[k]]_vars

C16_Witness ==
    /\ \E s \in Sinks : outputs[s] = "SelfTest"
    /\ Len(methods) = 2
    /\ \A p \in 1..Len(methods) : methods[p].name[2] = "Checks"
    /\ RunReturned

\* ------------------------------------------------------------- C17
\* C17: under every interleaving the callback of a unit submits the
\* qualified name and description of the entry whose method the unit
\* executed, and the method record is attached to the future before the
\* callback can run, whether the worker calls it or, the call having
\* finished before add_done_callback, the submitting thread: no callback
\* is stored or started on a future without record, and none raises for
\* the lack of it.
C17_CallbackSeesItsMethod ==
    /\ \A s \in Sinks : \A row \in BagToSet(rows[s]) :
          /\ row.unit \in 1..Len(methods)
          /\ row.name = methods[row.unit].name
          /\ row.doc = methods[row.unit].doc
          /\ row.run = runNo =>
                /\ row.unit \in Units
                /\ fut[row.unit].fn = << methods[row.unit].method >>
                /\ fut[row.unit].method = << methods[row.unit] >>
    /\ \A i \in Units :
          /\ (fut[i].hasCb \/ cb[i].at # "none") => fut[i].method = << methods[i] >>
          /\ (cb[i].at = "raised" /\ cb[i].sink = 0)
                => fut[i].outcome.kind \notin {"ok", "AssertionError"}

C17_Witness ==
    /\ pc = "callback"
    /\ idx >= 2
    /\ cb[idx].by = "main"
    /\ cb[idx].at = "insubmit"
    /\ \E row \in Received(1, runNo, idx) : row.name = methods[idx].name
    /\ \E i \in Units : i < idx /\ cb[i].by = "worker" /\ cb[i].at = "insubmit"

\* ------------------------------------------------------------- C18
\* C18: when the body of the with statement raised, scope exit still
\* invokes run() and flushes all sinks, and the exception of the body is
\* not suppressed: from __exit__ on it stays the exception that propagates,
\* and when the with statement has been left with it, run() has returned
\* and every sink has been flushed once.
C18_BodyErrorRunsFlushesPropagates ==
    /\ [][(inExit /\ exc \in BodyExceptions) => exc' = exc]_vars
    /\ []((pc = "done" /\ exc \in BodyExceptions) =>
            /\ runState = "returned"
            /\ \A s \in Sinks : flushed[s] = 1)

\* ------------------------------------------------------------- C19
\* C19: when a sink's submit raises while the result of a unit is being
\* dispatched, the sinks registered before it have received that result
\* once and the sinks registered after it never receive it; every other
\* unit is executed and dispatched all the same: when run() returns all
\* units have finished, and the result of every unit that returned or
\* asserted is in every sink up to the first raising one and in none after.
C19_SubmitRaisingMidDispatch ==
    /\ \A i \in Units :
          SubmitRaised(i) =>
              /\ outputs[cb[i].sink] = "Output"
              /\ \A s \in 1..(cb[i].sink - 1) : Submits(s, runNo, i) = 1
              /\ \A s \in (cb[i].sink + 1)..Len(outputs) : Submits(s, runNo, i) = 0
    /\ RunReturned =>
          /\ AllDone
          /\ \A i \in Units : \A s \in Sinks :
                ~Errors(i) => Submits(s, runNo, i) = IF Reached(s) THEN 1 ELSE 0

C19_Witness ==
    /\ RunReturned
    /\ outputs = << "ConsoleTable", "Output", "ConsoleTable" >>
    /\ \E i \in Units :
          /\ SubmitRaised(i)
          /\ Submits(1, runNo, i) = 1
          /\ Submits(3, runNo, i) = 0

\* ------------------------------------------------------------- C20
\* C20: run() never modifies self.methods or self.outputs: no step from the
\* first invocation of run() on changes them; hence every invocation of
\* run() on the runner executes and dispatches every registered method
\* again: when the latest run() has returned, every sink the dispatch
\* reaches holds, for each run so far, one result per method that returned
\* or asserted.
C20_RunLeavesRegistriesAndReruns ==
    /\ [][(runState # "idle" \/ runState' # "idle")
              => UNCHANGED << methods, outputs >>]_vars
    /\ [](RunReturned =>
            /\ Len(fut) = Len(methods)
            /\ \A r \in 1..runNo : \A i \in 1..Len(methods) : \A s \in Sinks :
                  ~Errors(i) => Submits(s, r, i) = IF Reached(s) THEN 1 ELSE 0)

C20_Witness ==
    /\ RunReturned
    /\ runNo = 2
    /\ inExit
    /\ Len(methods) >= 2
    /\ \E s \in Sinks : \A i \in 1..Len(methods) :
          Submits(s, 1, i) = 1 /\ Submits(s, 2, i) = 1

====
